---- MODULE Spec2Model ----
(***************************************************************************)
(* Call-center dashboard: filter state and page index owned by             *)
(* CallsDashboard, three keyed polling queries (records, statistics,       *)
(* charts), the CallsTable pagination window and the CallsOverview cards.  *)
(***************************************************************************)
EXTENDS Integers, Sequences, FiniteSets, TLC

(* ---------------------------- bounds ----------------------------------- *)
MaxPages == 2           \* the backend reports row counts filling up to MaxPages pages
MaxActiveFields == 1    \* filter fields holding a value at the same time
MaxInactive == 1        \* cached queries without an observer, all caches together
MaxCur == 22            \* largest currentPage prop drawn for the table
MaxTotal == 20          \* largest totalPages prop drawn for the table
MaxDaily == 3           \* rows of the daily collection an rpc returns
MaxHourlyRows == 2      \* rows of the hourly collection an rpc returns
MaxNameLen == 16        \* characters of an outcome name
MaxFetchPage == 3       \* largest page a records fetch is drawn for
MaxMatches == 25        \* rows of the calls table that match the filters

(* ------------------------ program constants ---------------------------- *)
CALLS_PER_PAGE == 10
maxVisible == 7

VARIABLES filters, currentPage, callsQ, statsQ, chartQ, toast, tableProps, pages,
          chartProps, series

vars == <<filters, currentPage, callsQ, statsQ, chartQ, toast, tableProps, pages,
         chartProps, series>>
dashVars == <<filters, currentPage, callsQ, statsQ, chartQ, toast>>
\* the chart component in detail: the props of <CallsChart/> and the series it
\* shapes from them (SpecChart); Spec follows the charts through ChartSeries
chartVars == <<chartProps, series>>

\* the value of an optional held as a set: {} is undefined or null, {x} is x
TheOne(S) == CHOOSE x \in S : TRUE

(* ----------------------------- filters --------------------------------- *)
\* the value of an absent (undefined) field; "" is the empty string an
\* emptied form control delivers
Undefined == "undefined"
FilterKeys == {"outcome", "dateFrom", "dateTo", "customerNumber"}

\* values the form controls can deliver for a field; "" is the emptied input
\* (the Select delivers "all", which the handler turns into "")
InputValues(key) ==
  CASE key = "outcome" -> {"all", "Booked"}
    [] key = "dateFrom" -> {"", "2024-01-01"}
    [] key = "dateTo" -> {"", "2024-12-31"}
    [] key = "customerNumber" -> {"", "555"}

EmptyFilters ==
  [outcome |-> Undefined, dateFrom |-> Undefined, dateTo |-> Undefined,
   customerNumber |-> Undefined]

\* a handler that stores the empty string as it comes
updateFilterKeepEmpty(f, key, value) == [f EXCEPT ![key] = value]

\* onFiltersChange({ ...filters, [key]: value || undefined })
updateFilter(f, key, value) ==
  [f EXCEPT ![key] = IF value = "" THEN Undefined ELSE value]

\* onValueChange of the Select: value === "all" ? "" : value; the other
\* controls hand e.target.value on
ControlValue(key, input) == IF key = "outcome" /\ input = "all" THEN "" ELSE input

clearFilters == EmptyFilters

\* a field value that counts as true: if (filters.outcome), value => value
Truthy(v) == v # Undefined /\ v # ""

\* Object.values(filters).some(value => value)
hasActiveFilters(f) == \E k \in FilterKeys : Truthy(f[k])

ActiveFields(f) == {k \in FilterKeys : Truthy(f[k])}

(* ---------------------- CallsTable: page window ------------------------ *)
Page(n) == [kind |-> "page", n |-> n]
Ellipsis == [kind |-> "ellipsis", n |-> 0]

\* for (let i = lo; i <= hi; i++) pages.push(i)
PushRange(lo, hi) == [i \in 1..(IF hi >= lo THEN hi - lo + 1 ELSE 0) |-> Page(lo + i - 1)]

\* variants of getVisiblePages with one decision changed
getVisiblePagesStrict(cur, total) ==
  IF total < maxVisible
    THEN PushRange(1, total)
    ELSE IF cur <= 4
      THEN PushRange(1, 5) \o <<Ellipsis, Page(total)>>
      ELSE IF cur >= total - 3
        THEN <<Page(1), Ellipsis>> \o PushRange(total - 4, total)
        ELSE <<Page(1), Ellipsis>> \o PushRange(cur - 1, cur + 1)
               \o <<Ellipsis, Page(total)>>

getVisiblePagesStart5(cur, total) ==
  IF total <= maxVisible
    THEN PushRange(1, total)
    ELSE IF cur <= 5
      THEN PushRange(1, 5) \o <<Ellipsis, Page(total)>>
      ELSE IF cur >= total - 3
        THEN <<Page(1), Ellipsis>> \o PushRange(total - 4, total)
        ELSE <<Page(1), Ellipsis>> \o PushRange(cur - 1, cur + 1)
               \o <<Ellipsis, Page(total)>>

getVisiblePagesStart6(cur, total) ==
  IF total <= maxVisible
    THEN PushRange(1, total)
    ELSE IF cur <= 6
      THEN PushRange(1, 5) \o <<Ellipsis, Page(total)>>
      ELSE IF cur >= total - 3
        THEN <<Page(1), Ellipsis>> \o PushRange(total - 4, total)
        ELSE <<Page(1), Ellipsis>> \o PushRange(cur - 1, cur + 1)
               \o <<Ellipsis, Page(total)>>

getVisiblePagesAll(cur, total) == PushRange(1, total)

getVisiblePagesNoEnd(cur, total) ==
  IF total <= maxVisible
    THEN PushRange(1, total)
    ELSE IF cur <= 4
      THEN PushRange(1, 5) \o <<Ellipsis, Page(total)>>
      ELSE <<Page(1), Ellipsis>> \o PushRange(cur - 1, cur + 1)
             \o <<Ellipsis, Page(total)>>

getVisiblePages(cur, total) ==
  IF total <= maxVisible
    THEN PushRange(1, total)
    ELSE IF cur <= 4
      THEN PushRange(1, 5) \o <<Ellipsis, Page(total)>>
      ELSE IF cur >= total - 3
        THEN <<Page(1), Ellipsis>> \o PushRange(total - 4, total)
        ELSE <<Page(1), Ellipsis>> \o PushRange(cur - 1, cur + 1)
               \o <<Ellipsis, Page(total)>>

\* controls that show up as soon as there is a page
controlsRenderedAnyPage(props) == ~props.isLoading /\ props.totalPages > 0

\* the table's early return while loading, and {totalPages > 1 && ...}
controlsRendered(props) == ~props.isLoading /\ props.totalPages > 1

\* the pages the rendered controls hand to onPageChange when clicked:
\* currentPage > 1 && onPageChange(currentPage - 1)
PreviousTarget(props) ==
  IF controlsRendered(props) /\ props.currentPage > 1
    THEN {props.currentPage - 1} ELSE {}

\* currentPage < totalPages && onPageChange(currentPage + 1)
NextTarget(props) ==
  IF controlsRendered(props) /\ props.currentPage < props.totalPages
    THEN {props.currentPage + 1} ELSE {}

\* onPageChange(page as number) of the i-th entry, when it is a page link
LinkTarget(props, window, i) ==
  IF controlsRendered(props) /\ i \in DOMAIN window /\ window[i].kind = "page"
    THEN {window[i].n} ELSE {}

PageTargets(props, window) ==
  PreviousTarget(props) \cup NextTarget(props)
    \cup UNION {LinkTarget(props, window, i) : i \in DOMAIN window}

\* one render of CallsTable: the props it received and the page window
\* getVisiblePages computes from them
RenderTable(props) ==
  /\ tableProps' = props
  /\ pages' = getVisiblePages(props.currentPage, props.totalPages)

(* ---------------------- CallsChart: series shaping --------------------- *)
\* A call_date is a year and a day of that year; DateOrd orders the dates.
DateOrd(date) == date.year * 366 + date.doy

\* formatInTimeZone(parseISO(call_date), 'America/New_York', 'MMM dd'): the
\* label names month and day and leaves the year out
FormatDate(date) == [mmmdd |-> date.doy]

\* Array.prototype.reverse
Reverse(s) == [i \in 1..Len(s) |-> s[Len(s) - i + 1]]

\* { date, calls: Number(item.call_count), ... } of one daily row
DailyPoint(item) == [date |-> FormatDate(item.call_date), calls |-> item.call_count]

\* the daily series without the final reverse()
dailyStatsUnreversed(chartData) ==
  LET daily == IF chartData = {} THEN <<>> ELSE TheOne(chartData).daily IN
  [i \in 1..Len(daily) |-> DailyPoint(daily[i])]

\* (chartData?.daily || []).map(...).reverse()
dailyStats(chartData) ==
  LET daily == IF chartData = {} THEN <<>> ELSE TheOne(chartData).daily IN
  Reverse([i \in 1..Len(daily) |-> DailyPoint(daily[i])])

\* A name is the sequence of its characters; the three dots of '...' are
\* three characters 0.
Dots == <<0, 0, 0>>

\* s.length > n ? s.substring(0, n) + '...' : s
Truncate(s, n) == IF Len(s) > n THEN SubSeq(s, 1, n) \o Dots ELSE s

\* (chartData?.outcomes || []).map(item => ({ name, value, displayName }))
pieData(chartData) ==
  LET outcomes == IF chartData = {} THEN <<>> ELSE TheOne(chartData).outcomes IN
  [i \in 1..Len(outcomes) |->
     [name |-> outcomes[i].outcome_name,
      value |-> outcomes[i].outcome_count,
      displayName |-> Truncate(outcomes[i].outcome_name, 12)]]

\* <Legend formatter={(value) => value.length > 15 ? ... : value}/>: the
\* legend of the pie shows, for each slice, the formatter applied to the
\* entry's name (the Pie has no nameKey, so the name field is the name)
LegendLabels(pie) == [i \in 1..Len(pie) |-> Truncate(pie[i].name, 15)]

\* chartData?.hourly?.find(h => h.call_hour === hour): the first such row
FindHour(chartData, hour) ==
  LET hourly == IF chartData = {} THEN <<>> ELSE TheOne(chartData).hourly
      idx == {i \in 1..Len(hourly) : hourly[i].call_hour = hour}
  IN IF idx = {} THEN {} ELSE {hourly[CHOOSE i \in idx : \A j \in idx : i <= j]}

\* the hourly series holding only the hours that have a row
hourlyDataSparse(chartData) ==
  LET hourly == IF chartData = {} THEN <<>> ELSE TheOne(chartData).hourly IN
  [i \in 1..Len(hourly) |-> [hour |-> hourly[i].call_hour, calls |-> hourly[i].call_count]]

\* Array.from({ length: 24 }, (_, hour) => ({ hour: `${hour}:00`, calls }))
hourlyData(chartData) ==
  [i \in 1..24 |->
     LET hourCalls == FindHour(chartData, i - 1) IN
     [hour |-> i - 1,
      calls |-> IF hourCalls = {} THEN 0 ELSE TheOne(hourCalls).call_count]]

\* one render of CallsChart: the skeleton while loading, else the charts
\* drawn from the three series and the legend of the pie
CallsChart(props) ==
  IF props.isLoading
    THEN [skeleton |-> TRUE, dailyStats |-> <<>>, pieData |-> <<>>,
          legend |-> <<>>, hourlyData |-> <<>>]
    ELSE [skeleton |-> FALSE,
          dailyStats |-> dailyStats(props.chartData),
          pieData |-> pieData(props.chartData),
          legend |-> LegendLabels(pieData(props.chartData)),
          hourlyData |-> hourlyData(props.chartData)]

RenderChart(props) ==
  /\ chartProps' = props
  /\ series' = CallsChart(props)

(* --------------------------- query cache ------------------------------- *)
\* A cached query: data is {} (undefined) or {d}; error is the failed flag;
\* fetching tells whether a request is in flight; req holds the values the
\* queryFn closure of that request captured.
NewQuery(req) == [data |-> {}, error |-> FALSE, fetching |-> TRUE, req |-> req]

\* a key that leaves the page out
CallsKeyNoPage(f, p) == [f |-> f, p |-> 1]

\* queryKey: ['calls', filters, currentPage]
CallsKey(f, p) == [f |-> f, p |-> p]

\* a key that leaves the filters out
StatsKeyNoFilters(f) == EmptyFilters

\* queryKey: ['call-statistics', filters]
StatsKey(f) == f

\* queryKey: ['chart-data', filters]
ChartKey(f) == f

\* no staleTime option is given: cached data is stale at once
isStale(q) == TRUE

\* an observer (useQuery) attaches to key k: the query is built when absent
\* and fetched when stale and not already being fetched
Observe(cache, k, req) ==
  IF k \notin DOMAIN cache
    THEN [x \in DOMAIN cache \cup {k} |-> IF x = k THEN NewQuery(req) ELSE cache[x]]
    ELSE IF cache[k].fetching \/ ~isStale(cache[k])
      THEN cache
      ELSE [cache EXCEPT ![k] =
              [data |-> @.data,
               error |-> IF @.data = {} THEN FALSE ELSE @.error,
               fetching |-> TRUE,
               req |-> req]]

\* the observer of a hook moves from key old to key k; nothing happens when
\* the key is the same
Switch(cache, old, k, req) == IF k = old THEN cache ELSE Observe(cache, k, req)

\* a timer that leaves a failed query alone
RefetchUnlessError(cache, k, req) ==
  IF cache[k].fetching \/ cache[k].error
    THEN cache
    ELSE [cache EXCEPT ![k] =
            [data |-> @.data, error |-> @.error, fetching |-> TRUE, req |-> req]]

\* refetchInterval timer of the observed query
Refetch(cache, k, req) ==
  IF cache[k].fetching
    THEN cache
    ELSE [cache EXCEPT ![k] =
            [data |-> @.data,
             error |-> IF @.data = {} THEN FALSE ELSE @.error,
             fetching |-> TRUE,
             req |-> req]]

\* the request of query k returned d
Resolve(cache, k, d) ==
  [cache EXCEPT ![k] = [data |-> {d}, error |-> FALSE, fetching |-> FALSE, req |-> @.req]]

\* the queryFn of query k threw: earlier data stays in the cache
Reject(cache, k) ==
  [cache EXCEPT ![k] = [data |-> @.data, error |-> TRUE, fetching |-> FALSE, req |-> @.req]]

Remove(cache, k) == [x \in DOMAIN cache \ {k} |-> cache[x]]

Inactive(cache, k) == DOMAIN cache \ {k}

IdleInactive(cache, k) == {x \in Inactive(cache, k) : ~cache[x].fetching}

\* The cache drops a query that has no observer and no request in flight
\* (its gcTime timer). Such a query does nothing until it is observed again
\* or dropped, and here the ones that are idle when they lose their observer
\* are dropped at once; a query whose request is still in flight stays, and
\* after the request returned it stays until GcCalls/GcStats/GcCharts.
Trim(cache, k) == [x \in DOMAIN cache \ IdleInactive(cache, k) |-> cache[x]]

(* ------------------------- records queryFn ----------------------------- *)
\* total matching counts the backend may report
Counts == {0} \cup {(n - 1) * CALLS_PER_PAGE + 1 : n \in 2..MaxPages}

\* Math.ceil(n / d)
Ceil(n, d) == (n + d - 1) \div d

Min(a, b) == IF a < b THEN a ELSE b
Max(a, b) == IF a > b THEN a ELSE b

\* .range((currentPage - 1) * CALLS_PER_PAGE, currentPage * CALLS_PER_PAGE - 1)
RangeFrom(p) == (p - 1) * CALLS_PER_PAGE
RangeTo(p) == p * CALLS_PER_PAGE - 1

\* rows of a match list of length count that fall into the requested range
RowsInRange(count, p) == Max(0, Min(count - 1, RangeTo(p)) - RangeFrom(p) + 1)

\* one filter of a query, .eq / .gte / .lte / .ilike(column, value); the
\* value is a text, put between two % for ilike
Pred(op, column, pre, text, post) ==
  [op |-> op, column |-> column, pre |-> pre, text |-> text, post |-> post]

\* a count query that leaves the customer number out
countQueryNoCustomer(f) ==
  [count |-> "exact", head |-> TRUE,
   predicates |->
     (IF Truthy(f.outcome) THEN {Pred("eq", "outcome", "", f.outcome, "")} ELSE {})
       \cup (IF Truthy(f.dateFrom) THEN {Pred("gte", "call_date", "", f.dateFrom, "")} ELSE {})
       \cup (IF Truthy(f.dateTo) THEN {Pred("lte", "call_date", "", f.dateTo, "")} ELSE {})]

\* let countQuery = supabase.from('calls').select('*', { count: 'exact',
\* head: true }); if (filters.outcome) countQuery = countQuery.eq(...); ...
countQuery(f) ==
  [count |-> "exact", head |-> TRUE,
   predicates |->
     (IF Truthy(f.outcome) THEN {Pred("eq", "outcome", "", f.outcome, "")} ELSE {})
       \cup (IF Truthy(f.dateFrom) THEN {Pred("gte", "call_date", "", f.dateFrom, "")} ELSE {})
       \cup (IF Truthy(f.dateTo) THEN {Pred("lte", "call_date", "", f.dateTo, "")} ELSE {})
       \cup (IF Truthy(f.customerNumber)
               THEN {Pred("ilike", "customer_number", "%", f.customerNumber, "%")} ELSE {})]

\* let dataQuery = supabase.from('calls').select('*').order('call_date',
\* { ascending: false }).range(...); if (filters.outcome) dataQuery = ...
dataQuery(f, p) ==
  [order |-> [column |-> "call_date", ascending |-> FALSE],
   range |-> <<RangeFrom(p), RangeTo(p)>>,
   predicates |->
     (IF Truthy(f.outcome) THEN {Pred("eq", "outcome", "", f.outcome, "")} ELSE {})
       \cup (IF Truthy(f.dateFrom) THEN {Pred("gte", "call_date", "", f.dateFrom, "")} ELSE {})
       \cup (IF Truthy(f.dateTo) THEN {Pred("lte", "call_date", "", f.dateTo, "")} ELSE {})
       \cup (IF Truthy(f.customerNumber)
               THEN {Pred("ilike", "customer_number", "%", f.customerNumber, "%")} ELSE {})]

\* count || 0
OrZero(c) == IF c = {} THEN 0 ELSE TheOne(c)

\* The records queryFn: countResp is the count the count query reports ({}
\* when it is null), matches the number of rows that satisfy the predicates
\* of the data query when it runs.
\* const result = { calls: data || [], totalCount: count || 0,
\*                  totalPages: Math.ceil((count || 0) / CALLS_PER_PAGE) }
recordsQueryFn(req, countResp, matches) ==
  [f |-> req.f, p |-> req.p,
   calls |-> RowsInRange(matches, req.p),
   totalCount |-> OrZero(countResp),
   totalPages |-> Ceil(OrZero(countResp), CALLS_PER_PAGE)]

\* the result when the count query and the data query see the same rows
CallsResult(req, count) == recordsQueryFn(req, {count}, count)

(* -------------------- statistics and chart queryFn --------------------- *)
\* total_calls of the row get_call_statistics returns
StatsValues == {7}

StatsResult(req, total) == [f |-> req, total_calls |-> total]

\* row counts of the three chart collections
ChartSizes == {2}

ChartResult(req, n) == [f |-> req, daily |-> n, outcomes |-> n, hourly |-> n]

(* --------------------------- CallsDashboard ---------------------------- *)
CurKey == CallsKey(filters, currentPage)

\* props handed to <CallsTable/>: callsData?.totalPages || 0, ...
TableProps(f, p, cache) ==
  LET q == cache[CallsKey(f, p)] IN
  [currentPage |-> p,
   totalPages |-> IF q.data = {} THEN 0 ELSE TheOne(q.data).totalPages,
   totalCount |-> IF q.data = {} THEN 0 ELSE TheOne(q.data).totalCount,
   calls |-> IF q.data = {} THEN 0 ELSE TheOne(q.data).calls,
   isLoading |-> q.data = {} /\ q.fetching]

\* CallsOverview: the skeleton while loading, else statistics?.total_calls || 0
OverviewCards(f, cache) ==
  LET q == cache[StatsKey(f)] IN
  [isLoading |-> q.data = {} /\ q.fetching,
   totalCalls |-> IF q.data = {} THEN 0 ELSE TheOne(q.data).total_calls]

\* CallsChart: the skeleton while loading, else the series shaped from
\* chartData?.daily || [], chartData?.outcomes || [] and chartData?.hourly
\* (dailyStats and pieData by their length, hourlyData by the number of
\* hours with a matching row)
ChartSeries(f, cache) ==
  LET q == cache[ChartKey(f)] IN
  [isLoading |-> q.data = {} /\ q.fetching,
   dailyStats |-> IF q.data = {} THEN 0 ELSE TheOne(q.data).daily,
   pieData |-> IF q.data = {} THEN 0 ELSE TheOne(q.data).outcomes,
   hourlyData |-> IF q.data = {} THEN 0 ELSE TheOne(q.data).hourly]

\* an effect that never notifies
ErrorToastNever(changed, error) == FALSE

\* useEffect(() => { if (error) toast(...) }, [error, toast]): runs when the
\* error value of the rendered query is another one than at the last commit
ErrorToast(changed, error) == changed /\ error

\* an effect that leaves the page alone
PageKept(p) == p

\* useEffect(() => { setCurrentPage(1) }, [filters])
PageAfterFiltersChange(p) == 1

InactiveTotal(cq, sq, hq, f, p) ==
  Cardinality(Inactive(cq, CallsKey(f, p))) + Cardinality(Inactive(sq, StatsKey(f)))
    + Cardinality(Inactive(hq, ChartKey(f)))

\* setFilters(f1): render with the new filters (all three observers move to
\* their new keys), then the page-reset effect and the render it causes
SetFilters(f1) ==
  LET p0 == currentPage
      p1 == PageAfterFiltersChange(p0)
      c1 == Switch(callsQ, CurKey, CallsKey(f1, p0), [f |-> f1, p |-> p0])
      c2 == Switch(c1, CallsKey(f1, p0), CallsKey(f1, p1), [f |-> f1, p |-> p1])
      s1 == Switch(statsQ, StatsKey(filters), StatsKey(f1), f1)
      h1 == Switch(chartQ, ChartKey(filters), ChartKey(f1), f1)
      t1 == ErrorToast(CallsKey(f1, p0) # CurKey, c1[CallsKey(f1, p0)].error)
      t2 == ErrorToast(CallsKey(f1, p1) # CallsKey(f1, p0), c2[CallsKey(f1, p1)].error)
  IN /\ filters' = f1
     /\ currentPage' = p1
     /\ callsQ' = Trim(c2, CallsKey(f1, p1))
     /\ statsQ' = Trim(s1, StatsKey(f1))
     /\ chartQ' = Trim(h1, ChartKey(f1))
     /\ toast' = (t1 \/ t2)
     /\ InactiveTotal(callsQ', statsQ', chartQ', f1, p1) <= MaxInactive
     /\ RenderTable(TableProps(f1, p1, callsQ'))
     /\ UNCHANGED chartVars

\* a form control changes: updateFilter(key, value)
UpdateFilter(key, input) ==
  LET value == ControlValue(key, input) IN
  /\ updateFilter(filters, key, value) # filters
  /\ Cardinality(ActiveFields(updateFilter(filters, key, value))) <= MaxActiveFields
  /\ SetFilters(updateFilter(filters, key, value))

\* the Clear button, rendered only while a filter is active
ClearFilters ==
  /\ hasActiveFilters(filters)
  /\ SetFilters(clearFilters)

\* handlePageChange(page): setCurrentPage(page)
handlePageChange(page) ==
  LET c1 == Switch(callsQ, CurKey, CallsKey(filters, page), [f |-> filters, p |-> page]) IN
  /\ currentPage' = page
  /\ callsQ' = Trim(c1, CallsKey(filters, page))
  /\ toast' = ErrorToast(CallsKey(filters, page) # CurKey, c1[CallsKey(filters, page)].error)
  /\ UNCHANGED <<filters, statsQ, chartQ, chartProps, series>>
  /\ InactiveTotal(callsQ', statsQ, chartQ, filters, page) <= MaxInactive
  /\ RenderTable(TableProps(filters, page, callsQ'))

\* onClick={() => currentPage > 1 && onPageChange(currentPage - 1)}
PreviousClick == \E page \in PreviousTarget(tableProps) : handlePageChange(page)

\* onClick={() => currentPage < totalPages && onPageChange(currentPage + 1)}
NextClick == \E page \in NextTarget(tableProps) : handlePageChange(page)

\* onClick={() => onPageChange(page as number)} of a rendered page link
LinkClick(i) ==
  \E page \in LinkTarget(tableProps, pages, i) :
    /\ page # currentPage
    /\ handlePageChange(page)

\* refetchInterval: 30000 of the records query
RefetchCalls ==
  /\ ~callsQ[CurKey].fetching
  /\ callsQ' = Refetch(callsQ, CurKey, [f |-> filters, p |-> currentPage])
  /\ toast' = FALSE
  /\ UNCHANGED <<filters, currentPage, statsQ, chartQ, chartProps, series>>
  /\ RenderTable(TableProps(filters, currentPage, callsQ'))

\* refetchInterval: 60000 of the statistics query
RefetchStats ==
  /\ ~statsQ[StatsKey(filters)].fetching
  /\ statsQ' = Refetch(statsQ, StatsKey(filters), filters)
  /\ toast' = FALSE
  /\ UNCHANGED <<filters, currentPage, callsQ, chartQ, tableProps, pages, chartProps, series>>

\* refetchInterval: 120000 of the chart query
RefetchCharts ==
  /\ ~chartQ[ChartKey(filters)].fetching
  /\ chartQ' = Refetch(chartQ, ChartKey(filters), filters)
  /\ toast' = FALSE
  /\ UNCHANGED <<filters, currentPage, callsQ, statsQ, tableProps, pages, chartProps, series>>

\* the records queryFn returns its result
CallsSucceed(k, count) ==
  /\ k \in DOMAIN callsQ
  /\ callsQ[k].fetching
  /\ callsQ' = Resolve(callsQ, k, CallsResult(callsQ[k].req, count))
  /\ toast' = FALSE
  /\ UNCHANGED <<filters, currentPage, statsQ, chartQ, chartProps, series>>
  /\ RenderTable(TableProps(filters, currentPage, callsQ'))

\* the records queryFn throws countError or dataError
CallsFail(k) ==
  /\ k \in DOMAIN callsQ
  /\ callsQ[k].fetching
  /\ callsQ' = Reject(callsQ, k)
  /\ toast' = ErrorToast(k = CurKey, callsQ'[CurKey].error)
  /\ UNCHANGED <<filters, currentPage, statsQ, chartQ, chartProps, series>>
  /\ RenderTable(TableProps(filters, currentPage, callsQ'))

\* get_call_statistics returns
StatsSucceed(k, total) ==
  /\ k \in DOMAIN statsQ
  /\ statsQ[k].fetching
  /\ statsQ' = Resolve(statsQ, k, StatsResult(statsQ[k].req, total))
  /\ toast' = FALSE
  /\ UNCHANGED <<filters, currentPage, callsQ, chartQ, tableProps, pages, chartProps, series>>

\* the statistics queryFn throws
StatsFail(k) ==
  /\ k \in DOMAIN statsQ
  /\ statsQ[k].fetching
  /\ statsQ' = Reject(statsQ, k)
  /\ toast' = FALSE
  /\ UNCHANGED <<filters, currentPage, callsQ, chartQ, tableProps, pages, chartProps, series>>

\* the three chart rpc calls return
ChartSucceed(k, n) ==
  /\ k \in DOMAIN chartQ
  /\ chartQ[k].fetching
  /\ chartQ' = Resolve(chartQ, k, ChartResult(chartQ[k].req, n))
  /\ toast' = FALSE
  /\ UNCHANGED <<filters, currentPage, callsQ, statsQ, tableProps, pages, chartProps, series>>

\* the chart queryFn throws dailyError, outcomeError or hourlyError
ChartFail(k) ==
  /\ k \in DOMAIN chartQ
  /\ chartQ[k].fetching
  /\ chartQ' = Reject(chartQ, k)
  /\ toast' = FALSE
  /\ UNCHANGED <<filters, currentPage, callsQ, statsQ, tableProps, pages, chartProps, series>>

\* the cache drops a query that has no observer and no request in flight
GcCalls(k) ==
  /\ k \in Inactive(callsQ, CurKey)
  /\ ~callsQ[k].fetching
  /\ callsQ' = Remove(callsQ, k)
  /\ toast' = FALSE
  /\ UNCHANGED <<filters, currentPage, statsQ, chartQ, tableProps, pages, chartProps, series>>

GcStats(k) ==
  /\ k \in Inactive(statsQ, StatsKey(filters))
  /\ ~statsQ[k].fetching
  /\ statsQ' = Remove(statsQ, k)
  /\ toast' = FALSE
  /\ UNCHANGED <<filters, currentPage, callsQ, chartQ, tableProps, pages, chartProps, series>>

GcCharts(k) ==
  /\ k \in Inactive(chartQ, ChartKey(filters))
  /\ ~chartQ[k].fetching
  /\ chartQ' = Remove(chartQ, k)
  /\ toast' = FALSE
  /\ UNCHANGED <<filters, currentPage, callsQ, statsQ, tableProps, pages, chartProps, series>>

(* --------------------------- specification ----------------------------- *)
\* first render: useState({}), useState(1), the three queries start
Init ==
  /\ filters = EmptyFilters
  /\ currentPage = 1
  /\ callsQ = [k \in {CallsKey(EmptyFilters, 1)} |-> NewQuery([f |-> EmptyFilters, p |-> 1])]
  /\ statsQ = [k \in {StatsKey(EmptyFilters)} |-> NewQuery(EmptyFilters)]
  /\ chartQ = [k \in {ChartKey(EmptyFilters)} |-> NewQuery(EmptyFilters)]
  /\ toast = FALSE
  /\ tableProps = TableProps(filters, currentPage, callsQ)
  /\ pages = getVisiblePages(tableProps.currentPage, tableProps.totalPages)
  /\ chartProps = [chartData |-> {}, isLoading |-> TRUE]
  /\ series = CallsChart(chartProps)

Next ==
  \/ \E key \in FilterKeys : \E input \in InputValues(key) : UpdateFilter(key, input)
  \/ ClearFilters
  \/ PreviousClick
  \/ NextClick
  \/ \E i \in 1..(maxVisible + 2) : LinkClick(i)
  \/ RefetchCalls
  \/ RefetchStats
  \/ RefetchCharts
  \/ \E k \in DOMAIN callsQ : \E count \in Counts : CallsSucceed(k, count)
  \/ \E k \in DOMAIN callsQ : CallsFail(k)
  \/ \E k \in DOMAIN statsQ : \E total \in StatsValues : StatsSucceed(k, total)
  \/ \E k \in DOMAIN statsQ : StatsFail(k)
  \/ \E k \in DOMAIN chartQ : \E n \in ChartSizes : ChartSucceed(k, n)
  \/ \E k \in DOMAIN chartQ : ChartFail(k)
  \/ \E k \in DOMAIN callsQ : GcCalls(k)
  \/ \E k \in DOMAIN statsQ : GcStats(k)
  \/ \E k \in DOMAIN chartQ : GcCharts(k)

Spec == Init /\ [][Next]_vars

(* ------------- the table on its own, for any props it may get ---------- *)
TablePropsSet ==
  [currentPage : 1..MaxCur, totalPages : 0..MaxTotal, totalCount : {0},
   calls : {0}, isLoading : BOOLEAN]

InitTable ==
  /\ filters = EmptyFilters
  /\ currentPage = 1
  /\ callsQ = [k \in {CallsKey(EmptyFilters, 1)} |-> NewQuery([f |-> EmptyFilters, p |-> 1])]
  /\ statsQ = [k \in {StatsKey(EmptyFilters)} |-> NewQuery(EmptyFilters)]
  /\ chartQ = [k \in {ChartKey(EmptyFilters)} |-> NewQuery(EmptyFilters)]
  /\ toast = FALSE
  /\ tableProps \in TablePropsSet
  /\ pages = getVisiblePages(tableProps.currentPage, tableProps.totalPages)
  /\ chartProps = [chartData |-> {}, isLoading |-> TRUE]
  /\ series = CallsChart(chartProps)

\* the parent renders the table with other props
ReceiveProps(props) ==
  /\ RenderTable(props)
  /\ UNCHANGED dashVars
  /\ UNCHANGED chartVars

\* onPageChange(page): the parent takes the page and renders the table with
\* it as currentPage; what else it hands down is the parent's business
OnPageChange(page) ==
  \E props \in TablePropsSet : props.currentPage = page /\ ReceiveProps(props)

\* the handlers of the rendered controls
PreviousPressed == \E page \in PreviousTarget(tableProps) : OnPageChange(page)
NextPressed == \E page \in NextTarget(tableProps) : OnPageChange(page)
LinkPressed(i) == \E page \in LinkTarget(tableProps, pages, i) : OnPageChange(page)

NextTable ==
  \/ \E props \in TablePropsSet : ReceiveProps(props)
  \/ PreviousPressed
  \/ NextPressed
  \/ \E i \in 1..(maxVisible + 2) : LinkPressed(i)

SpecTable == InitTable /\ [][NextTable]_vars

(* ------------- the records queryFn for any filters and page ------------ *)
RecordFilters ==
  [outcome : {Undefined, "Booked"}, dateFrom : {Undefined, "2024-01-01"},
   dateTo : {Undefined, "2024-12-31"}, customerNumber : {Undefined, "555"}]

\* numbers of matching rows: none, half a page, a full page, one more, many
MatchCounts == {0, 5, CALLS_PER_PAGE, CALLS_PER_PAGE + 1, MaxMatches}

InitRecords ==
  /\ filters \in RecordFilters
  /\ currentPage \in 1..MaxFetchPage
  /\ callsQ = [k \in {CallsKey(filters, currentPage)} |->
                 NewQuery([f |-> filters, p |-> currentPage])]
  /\ statsQ = [k \in {StatsKey(filters)} |-> NewQuery(filters)]
  /\ chartQ = [k \in {ChartKey(filters)} |-> NewQuery(filters)]
  /\ toast = FALSE
  /\ tableProps = TableProps(filters, currentPage, callsQ)
  /\ pages = getVisiblePages(tableProps.currentPage, tableProps.totalPages)
  /\ chartProps = [chartData |-> {}, isLoading |-> TRUE]
  /\ series = CallsChart(chartProps)

\* the count query and the data query of the observed records query return
RecordsReturn(countResp, matches) ==
  /\ callsQ[CurKey].fetching
  /\ callsQ' = Resolve(callsQ, CurKey, recordsQueryFn(callsQ[CurKey].req, countResp, matches))
  /\ toast' = FALSE
  /\ UNCHANGED <<filters, currentPage, statsQ, chartQ, chartProps, series>>
  /\ RenderTable(TableProps(filters, currentPage, callsQ'))

NextRecords ==
  \/ \E matches \in MatchCounts : \E countResp \in {{}} \cup {{c} : c \in MatchCounts} :
       RecordsReturn(countResp, matches)
  \/ \E k \in DOMAIN callsQ : CallsFail(k)
  \/ RefetchCalls

SpecRecords == InitRecords /\ [][NextRecords]_vars

(* ------ the filter form on its own, for any filter value it may get ---- *)
\* what the controls of the form can deliver: the items of the Select, and
\* texts of the date and number inputs ("" is the emptied input)
FormValues(key) ==
  CASE key = "outcome" ->
         {"all", "Booked", "Connected", "No answer", "Busy", "Wrong number",
          "Left voicemail", "Left live message"}
    [] key = "dateFrom" -> {"", "2024-01-01", "2024-06-01"}
    [] key = "dateTo" -> {"", "2024-12-31"}
    [] key = "customerNumber" -> {"", "555", "+1 555"}

\* a control of the form changes; the parent hands the value it got from
\* onFiltersChange back as the filters prop
FormEdit(key, input) ==
  /\ filters' = updateFilter(filters, key, ControlValue(key, input))
  /\ UNCHANGED <<currentPage, callsQ, statsQ, chartQ, toast, tableProps, pages,
                 chartProps, series>>

\* the Clear button, rendered only while a filter is active
FormClear ==
  /\ hasActiveFilters(filters)
  /\ filters' = clearFilters
  /\ UNCHANGED <<currentPage, callsQ, statsQ, chartQ, toast, tableProps, pages,
                 chartProps, series>>

NextFilters ==
  \/ \E key \in FilterKeys : \E input \in FormValues(key) : FormEdit(key, input)
  \/ FormClear

SpecFilters == Init /\ [][NextFilters]_vars

(* ------------- the chart query and the charts in detail ---------------- *)
\* rows get_daily_call_aggregates may return: the last day of one year and the
\* first days of the next
Date(i) == IF i = 1 THEN [year |-> 2023, doy |-> 365] ELSE [year |-> 2024, doy |-> i - 1]
DailyRow(i) == [call_date |-> Date(i), call_count |-> 10 * i]
NewestFirst(n) == [i \in 1..n |-> DailyRow(n - i + 1)]
DailyInputs == {NewestFirst(n) : n \in 0..MaxDaily} \cup {Reverse(NewestFirst(2))}

\* rows get_outcome_distribution may return; the name of n characters
Name(n) == [i \in 1..n |-> i]
OutcomeRow(n) == [outcome_name |-> Name(n), outcome_count |-> n]
OutcomeInputs ==
  {<<>>} \cup {<<OutcomeRow(n)>> : n \in 10..MaxNameLen}
    \cup {<<OutcomeRow(13), OutcomeRow(3)>>}

\* rows get_hourly_call_distribution may return, two of them for the same
\* hour; a list holds a row once
HourRows ==
  {[call_hour |-> 0, call_count |-> 4], [call_hour |-> 3, call_count |-> 5],
   [call_hour |-> 3, call_count |-> 2]}
HourlyInputs ==
  UNION {{s \in [1..n -> HourRows] : \A i \in 1..n : \A j \in 1..n : i # j => s[i] # s[j]} :
           n \in 0..MaxHourlyRows}

\* { data, error } of one supabase.rpc call: an error, null data, or rows
RpcResponses(rows) ==
  {[error |-> TRUE, data |-> {}], [error |-> FALSE, data |-> {}]}
    \cup {[error |-> FALSE, data |-> {r}] : r \in rows}

\* x || []
OrEmpty(d) == IF d = {} THEN <<>> ELSE TheOne(d)

\* a queryFn that logs an rpc error and goes on with null data
chartQueryFnLenient(got, resp) ==
  IF Len(got) < 2
    THEN [state |-> "await"]
    ELSE [state |-> "returned",
          value |-> [daily |-> OrEmpty(got[1].data), outcomes |-> OrEmpty(got[2].data),
                     hourly |-> OrEmpty(resp.data)]]

\* The chart queryFn awaits get_daily_call_aggregates, get_outcome_distribution and
\* get_hourly_call_distribution one after the other. got holds the { data, error } pairs
\* it has received, resp is what the awaited rpc returns:
\* if (error) throw error; after the third, return { daily: dailyData || [],
\* outcomes: outcomeData || [], hourly: hourlyData || [] }
chartQueryFn(got, resp) ==
  IF resp.error
    THEN [state |-> "threw"]
    ELSE IF Len(got) < 2
      THEN [state |-> "await"]
      ELSE [state |-> "returned",
            value |-> [daily |-> OrEmpty(got[1].data), outcomes |-> OrEmpty(got[2].data),
                       hourly |-> OrEmpty(resp.data)]]

\* what a run of the queryFn holds: the filters it captured and the
\* { data, error } pairs of the rpc calls it has made
ChartReq(f, got) == [f |-> f, got |-> got]

\* <CallsChart chartData={chartData} isLoading={isLoadingCharts}/>
ChartProps(f, cache) ==
  LET q == cache[ChartKey(f)] IN
  [chartData |-> q.data, isLoading |-> q.data = {} /\ q.fetching]

\* the rpc the queryFn of the observed chart query is awaiting returns
ChartRpcReturns(resp) ==
  LET k == ChartKey(filters)
      got == chartQ[k].req.got
      r == chartQueryFn(got, resp)
      settled == IF r.state = "threw"
                   THEN Reject(chartQ, k)
                   ELSE IF r.state = "returned" THEN Resolve(chartQ, k, r.value)
                   ELSE chartQ
  IN /\ chartQ[k].fetching
     /\ chartQ' = [settled EXCEPT ![k].req = ChartReq(filters, Append(got, resp))]
     /\ RenderChart(ChartProps(filters, chartQ'))
     /\ UNCHANGED <<filters, currentPage, callsQ, statsQ, toast, tableProps, pages>>

DailyReturns(resp) ==
  /\ Len(chartQ[ChartKey(filters)].req.got) = 0
  /\ ChartRpcReturns(resp)

OutcomeReturns(resp) ==
  /\ Len(chartQ[ChartKey(filters)].req.got) = 1
  /\ ChartRpcReturns(resp)

HourlyReturns(resp) ==
  /\ Len(chartQ[ChartKey(filters)].req.got) = 2
  /\ ChartRpcReturns(resp)

\* refetchInterval: 120000 of the chart query
ChartPoll ==
  /\ ~chartQ[ChartKey(filters)].fetching
  /\ chartQ' = Refetch(chartQ, ChartKey(filters), ChartReq(filters, <<>>))
  /\ RenderChart(ChartProps(filters, chartQ'))
  /\ UNCHANGED <<filters, currentPage, callsQ, statsQ, toast, tableProps, pages>>

InitChart ==
  /\ filters = EmptyFilters
  /\ currentPage = 1
  /\ callsQ = [k \in {CallsKey(EmptyFilters, 1)} |-> NewQuery([f |-> EmptyFilters, p |-> 1])]
  /\ statsQ = [k \in {StatsKey(EmptyFilters)} |-> NewQuery(EmptyFilters)]
  /\ chartQ = [k \in {ChartKey(EmptyFilters)} |-> NewQuery(ChartReq(EmptyFilters, <<>>))]
  /\ toast = FALSE
  /\ tableProps = TableProps(filters, currentPage, callsQ)
  /\ pages = getVisiblePages(tableProps.currentPage, tableProps.totalPages)
  /\ chartProps = ChartProps(filters, chartQ)
  /\ series = CallsChart(chartProps)

\* the rows the rpc calls return in SpecChart: none, or the longest list
NextChart ==
  \/ \E resp \in RpcResponses({<<>>, NewestFirst(MaxDaily)}) : DailyReturns(resp)
  \/ \E resp \in RpcResponses({<<>>, <<OutcomeRow(MaxNameLen)>>}) : OutcomeReturns(resp)
  \/ \E resp \in RpcResponses({<<>>} \cup [1..MaxHourlyRows -> HourRows]) : HourlyReturns(resp)
  \/ ChartPoll

SpecChart == InitChart /\ [][NextChart]_vars

(* ------------- the charts on their own, for any props they may get ---- *)
ChartDataSet ==
  [daily : DailyInputs, outcomes : OutcomeInputs, hourly : HourlyInputs]

\* isLoading is true only while there is no data
ChartPropsSet ==
  {[chartData |-> {}, isLoading |-> b] : b \in BOOLEAN}
    \cup {[chartData |-> {d}, isLoading |-> FALSE] : d \in ChartDataSet}

InitChartProps ==
  /\ filters = EmptyFilters
  /\ currentPage = 1
  /\ callsQ = [k \in {CallsKey(EmptyFilters, 1)} |-> NewQuery([f |-> EmptyFilters, p |-> 1])]
  /\ statsQ = [k \in {StatsKey(EmptyFilters)} |-> NewQuery(EmptyFilters)]
  /\ chartQ = [k \in {ChartKey(EmptyFilters)} |-> NewQuery(EmptyFilters)]
  /\ toast = FALSE
  /\ tableProps = TableProps(filters, currentPage, callsQ)
  /\ pages = getVisiblePages(tableProps.currentPage, tableProps.totalPages)
  /\ chartProps \in ChartPropsSet
  /\ series = CallsChart(chartProps)

\* the parent renders the charts with other props
ReceiveChartProps(props) ==
  /\ RenderChart(props)
  /\ UNCHANGED <<filters, currentPage, callsQ, statsQ, chartQ, toast, tableProps, pages>>

NextChartProps == \E props \in ChartPropsSet : ReceiveChartProps(props)

SpecChartProps == InitChartProps /\ [][NextChartProps]_vars

(* ------------------- properties of the page window --------------------- *)
PageNumbers == {i \in DOMAIN pages : pages[i].kind = "page"}
EllipsisMarks == {i \in DOMAIN pages : pages[i].kind = "ellipsis"}
ShowsPage(n) == \E i \in DOMAIN pages : pages[i] = Page(n)

\* C3: with at most 7 pages in total the window is exactly 1, 2, ...,
\* totalPages in ascending order without ellipsis marker, whatever the
\* current page is (the empty window for totalPages = 0)
C3_SmallTotalShowsAll ==
  tableProps.totalPages <= 7 =>
    /\ Len(pages) = tableProps.totalPages
    /\ \A i \in 1..Len(pages) : pages[i].kind = "page" /\ pages[i].n = i

C3_Witness ==
  /\ tableProps.totalPages = 7
  /\ tableProps.currentPage = 9
  /\ Len(pages) = 7

\* C4: with more than 7 pages the window is [1..5, ellipsis, total] near the
\* start (current <= 4), [1, ellipsis, total-4..total] near the end
\* (current >= total - 3) and [1, ellipsis, current-1..current+1, ellipsis,
\* total] in the middle; the regimes do not overlap; 20 pages with current
\* page 10 give [1, ellipsis, 9, 10, 11, ellipsis, 20]
C4_ThreeRegimes ==
  LET cur == tableProps.currentPage
      total == tableProps.totalPages
      nearStart == cur <= 4
      nearEnd == cur >= total - 3
  IN total > 7 =>
       /\ ~(nearStart /\ nearEnd)
       /\ nearStart =>
            pages = <<Page(1), Page(2), Page(3), Page(4), Page(5), Ellipsis, Page(total)>>
       /\ nearEnd =>
            pages = <<Page(1), Ellipsis, Page(total - 4), Page(total - 3),
                      Page(total - 2), Page(total - 1), Page(total)>>
       /\ ~nearStart /\ ~nearEnd =>
            pages = <<Page(1), Ellipsis, Page(cur - 1), Page(cur), Page(cur + 1),
                      Ellipsis, Page(total)>>
       /\ total = 20 /\ cur = 10 =>
            pages = <<Page(1), Ellipsis, Page(9), Page(10), Page(11), Ellipsis, Page(20)>>

C4_Witness ==
  /\ tableProps.totalPages = 20
  /\ tableProps.currentPage = 10
  /\ Len(pages) = 7
  /\ pages[4] = Page(10)

\* C5: every page number of the window lies in 1..totalPages and none
\* appears twice
C5_PagesInRangeOnce ==
  /\ \A i \in PageNumbers : pages[i].n >= 1 /\ pages[i].n <= tableProps.totalPages
  /\ \A i, j \in PageNumbers : pages[i].n = pages[j].n => i = j

C5_Witness ==
  /\ tableProps.totalPages = 8
  /\ tableProps.currentPage = 5
  /\ Cardinality(PageNumbers) = 6

\* C6: the window has at most 9 entries, at most 7 of them page numbers and
\* at most 2 of them ellipsis markers
C6_AtMostNineEntries ==
  /\ Len(pages) <= 9
  /\ Cardinality(PageNumbers) <= 7
  /\ Cardinality(EllipsisMarks) <= 2

C6_Witness ==
  /\ tableProps.totalPages = MaxTotal
  /\ Cardinality(PageNumbers) = 5
  /\ Cardinality(EllipsisMarks) = 2

\* C7: when the current page is one of the 1..totalPages existing pages, the
\* window shows the current page, page 1 and page totalPages
C7_CurrentFirstLastShown ==
  (tableProps.totalPages >= 1 /\ tableProps.currentPage <= tableProps.totalPages) =>
    /\ ShowsPage(tableProps.currentPage)
    /\ ShowsPage(1)
    /\ ShowsPage(tableProps.totalPages)

C7_Witness ==
  /\ tableProps.totalPages = 12
  /\ tableProps.currentPage = 8
  /\ ShowsPage(8) /\ ShowsPage(1) /\ ShowsPage(12)

(* --------------------- properties of the dashboard --------------------- *)
\* C1: the current page always satisfies 1 <= currentPage <= max(1,
\* totalPages), totalPages being the page count handed to the table
C1_PageWithinTotalPages ==
  /\ currentPage >= 1
  /\ currentPage <= Max(1, tableProps.totalPages)

\* C2: whenever the filter value is replaced, the current page becomes 1
C2_FilterChangeResetsPage == [][filters' # filters => currentPage' = 1]_vars

\* the filters were replaced while a later page was current: the request of
\* the render between setFilters and the page reset is still in flight
C2_Witness ==
  /\ currentPage = 1
  /\ \E k \in DOMAIN callsQ :
       k.f = filters /\ k.p > 1 /\ callsQ[k].data = {} /\ callsQ[k].fetching

\* a step issues a request for key k of a cache
Issued(old, new, k) ==
  /\ k \in DOMAIN new
  /\ new[k].fetching
  /\ ~(k \in DOMAIN old /\ old[k].fetching)

InFlight(cache, k) == k \in DOMAIN cache /\ cache[k].fetching

\* C8, as claimed: whenever the filter value or the page index changes, all
\* three queries are issued again for the new value
C8_ChangeReissuesAllThree ==
  [][(filters' # filters \/ currentPage' # currentPage) =>
       /\ Issued(callsQ, callsQ', CallsKey(filters', currentPage'))
       /\ Issued(statsQ, statsQ', StatsKey(filters'))
       /\ Issued(chartQ, chartQ', ChartKey(filters'))]_vars

\* C8, amended: after a change of the filter value a request for the new
\* value is in flight for each of the three queries; after a change of the
\* page index alone a request for the new (filters, page) key is in flight
\* for the records query, and the statistics and chart queries are left as
\* they are
C8_FilterChangeFetchesAll ==
  [][/\ filters' # filters =>
          /\ InFlight(callsQ', CallsKey(filters', currentPage'))
          /\ InFlight(statsQ', StatsKey(filters'))
          /\ InFlight(chartQ', ChartKey(filters'))
     /\ (filters' = filters /\ currentPage' # currentPage) =>
          /\ InFlight(callsQ', CallsKey(filters', currentPage'))
          /\ UNCHANGED <<statsQ, chartQ>>]_vars

\* a page change has issued the records request alone
C8_Witness ==
  /\ currentPage > 1
  /\ callsQ[CurKey].data = {} /\ callsQ[CurKey].fetching
  /\ ~statsQ[StatsKey(filters)].fetching
  /\ ~chartQ[ChartKey(filters)].fetching

\* C9: the records, total count and page count shown by the table are
\* those returned for the current (filters, page) key, or nothing while
\* that key has no result; no result of a request made under another
\* filter or page value is shown
C9_LatestRequestWins ==
  LET q == callsQ[CurKey] IN
  /\ tableProps.currentPage = currentPage
  /\ q.data = {} =>
       tableProps.calls = 0 /\ tableProps.totalCount = 0 /\ tableProps.totalPages = 0
  /\ q.data # {} =>
       LET d == TheOne(q.data) IN
       /\ d.f = filters /\ d.p = currentPage
       /\ tableProps.calls = d.calls
       /\ tableProps.totalCount = d.totalCount
       /\ tableProps.totalPages = d.totalPages

\* a request made under an earlier key returned after the key had changed,
\* and the table shows the result of the current key
C9_Witness ==
  /\ callsQ[CurKey].data # {}
  /\ \E k \in DOMAIN callsQ :
       /\ k # CurKey
       /\ callsQ[k].data # {} /\ ~callsQ[k].fetching /\ ~callsQ[k].error
       /\ TheOne(callsQ[k].data).totalCount # tableProps.totalCount

CallsFailNow == \E k \in DOMAIN callsQ : k = CurKey /\ CallsFail(k)
StatsFailNow == \E k \in DOMAIN statsQ : k = StatsKey(filters) /\ StatsFail(k)
ChartFailNow == \E k \in DOMAIN chartQ : k = ChartKey(filters) /\ ChartFail(k)
AnyStatsOrChartFail ==
  \/ \E k \in DOMAIN statsQ : StatsFail(k)
  \/ \E k \in DOMAIN chartQ : ChartFail(k)

\* C10, as claimed: a failure of the records query raises a notification; a
\* failure of the statistics or chart query raises none and leaves the cards
\* on zero values and the charts on empty series
C10_FailureLeavesZeros ==
  [][/\ CallsFailNow => toast'
     /\ AnyStatsOrChartFail => ~toast'
     /\ StatsFailNow =>
          OverviewCards(filters', statsQ') = [isLoading |-> FALSE, totalCalls |-> 0]
     /\ ChartFailNow =>
          ChartSeries(filters', chartQ') =
            [isLoading |-> FALSE, dailyStats |-> 0, pieData |-> 0, hourlyData |-> 0]]_vars

\* C10, amended: a failure of the records query raises a notification; a
\* failure of the statistics or chart query raises none; it leaves the cards
\* on zero values and the charts on empty series when no earlier fetch for
\* the current filter value had succeeded, and on the values of the last
\* successful fetch otherwise
C10_FailureKeepsLastData ==
  [][/\ CallsFailNow => toast'
     /\ AnyStatsOrChartFail => ~toast'
     /\ StatsFailNow =>
          LET q == statsQ[StatsKey(filters)] IN
          OverviewCards(filters', statsQ') =
            [isLoading |-> FALSE,
             totalCalls |-> IF q.data = {} THEN 0 ELSE TheOne(q.data).total_calls]
     /\ ChartFailNow =>
          LET q == chartQ[ChartKey(filters)] IN
          ChartSeries(filters', chartQ') =
            [isLoading |-> FALSE,
             dailyStats |-> IF q.data = {} THEN 0 ELSE TheOne(q.data).daily,
             pieData |-> IF q.data = {} THEN 0 ELSE TheOne(q.data).outcomes,
             hourlyData |-> IF q.data = {} THEN 0 ELSE TheOne(q.data).hourly]]_vars

\* the records query has just failed and the notification is up, the
\* statistics query failed after an earlier success and the chart query
\* failed without one
C10_Witness ==
  /\ toast
  /\ callsQ[CurKey].error
  /\ statsQ[StatsKey(filters)].error /\ statsQ[StatsKey(filters)].data # {}
  /\ OverviewCards(filters, statsQ).totalCalls > 0
  /\ chartQ[ChartKey(filters)].error /\ chartQ[ChartKey(filters)].data = {}
  /\ ChartSeries(filters, chartQ).dailyStats = 0

\* the observed query of a category has failed and is idle
CallsFailed == callsQ[CurKey].error /\ ~callsQ[CurKey].fetching
StatsFailed == statsQ[StatsKey(filters)].error /\ ~statsQ[StatsKey(filters)].fetching
ChartFailed == chartQ[ChartKey(filters)].error /\ ~chartQ[ChartKey(filters)].fetching
AnyFail ==
  \/ \E k \in DOMAIN callsQ : CallsFail(k)
  \/ AnyStatsOrChartFail
CallsSucceedNow == \E count \in Counts : CallsSucceed(CurKey, count)
StatsSucceedNow == \E total \in StatsValues : StatsSucceed(StatsKey(filters), total)
ChartSucceedNow == \E n \in ChartSizes : ChartSucceed(ChartKey(filters), n)

\* C11: no failure is fatal. While an observed query is failed, the poll of
\* each of the three categories is either possible or already in flight; a
\* failure leaves the filter value, from which alone the filter form is
\* rendered, as it is, and takes away no page change the controls offered
\* before it; the poll of a failed query puts a request for it in flight;
\* and a success of that request replaces the failed result by the new one
C11_NoFatalState ==
  /\ [](CallsFailed \/ StatsFailed \/ ChartFailed =>
          /\ callsQ[CurKey].fetching \/ ENABLED RefetchCalls
          /\ statsQ[StatsKey(filters)].fetching \/ ENABLED RefetchStats
          /\ chartQ[ChartKey(filters)].fetching \/ ENABLED RefetchCharts)
  /\ [][AnyFail =>
          /\ filters' = filters
          /\ PageTargets(tableProps, pages) \subseteq PageTargets(tableProps', pages')]_vars
  /\ [][/\ (CallsFailed /\ RefetchCalls) => InFlight(callsQ', CurKey)
        /\ (StatsFailed /\ RefetchStats) => InFlight(statsQ', StatsKey(filters))
        /\ (ChartFailed /\ RefetchCharts) => InFlight(chartQ', ChartKey(filters))]_vars
  /\ [][/\ (callsQ[CurKey].error /\ CallsSucceedNow) =>
             ~callsQ'[CurKey].error /\ callsQ'[CurKey].data # {} /\ ~tableProps'.isLoading
        /\ (statsQ[StatsKey(filters)].error /\ StatsSucceedNow) =>
             ~statsQ'[StatsKey(filters)].error /\ ~OverviewCards(filters', statsQ').isLoading
        /\ (chartQ[ChartKey(filters)].error /\ ChartSucceedNow) =>
             ~chartQ'[ChartKey(filters)].error /\ ~ChartSeries(filters', chartQ').isLoading]_vars

\* the records query failed with earlier data in the cache, and its poll
\* has put the request in flight again
C11_Witness ==
  /\ callsQ[CurKey].error
  /\ callsQ[CurKey].fetching
  /\ callsQ[CurKey].data # {}
  /\ controlsRendered(tableProps)

(* ----------------------- properties of the charts ---------------------- *)
ChartQ == chartQ[ChartKey(filters)]

\* a step in which an rpc of the observed chart query returned; its
\* { data, error } pair is the last one the run holds after the step
RpcStep ==
  /\ ChartQ.fetching
  /\ Len(chartQ'[ChartKey(filters)].req.got) = Len(ChartQ.req.got) + 1
RpcResp == chartQ'[ChartKey(filters)].req.got[Len(ChartQ.req.got) + 1]

\* C12, as claimed: the three collections are fetched independently. What
\* one rpc returns does not decide about the other two: after the daily and
\* after the outcome rpc the fetch goes on to the next collection, and after
\* the hourly rpc the charts have the daily and outcome rows of this fetch
C12_CollectionsIndependent ==
  [][RpcStep =>
       IF Len(ChartQ.req.got) < 2
         THEN InFlight(chartQ', ChartKey(filters))
         ELSE /\ chartProps'.chartData # {}
              /\ TheOne(chartProps'.chartData).daily = OrEmpty(ChartQ.req.got[1].data)
              /\ TheOne(chartProps'.chartData).outcomes = OrEmpty(ChartQ.req.got[2].data)]_vars

\* C12, amended: one fetch asks for the three collections one after the
\* other. Each may come back empty (or null, taken as empty) on its own; the
\* three are handed to the charts together, and only when none of the three
\* rpc calls reported an error. An error of any one ends the fetch: the
\* remaining collections are not asked for, nothing of this fetch reaches
\* the charts, and the charts keep what they had
C12_AllOrNothing ==
  [][RpcStep =>
       IF RpcResp.error
         THEN /\ chartQ'[ChartKey(filters)].error
              /\ ~InFlight(chartQ', ChartKey(filters))
              /\ chartProps'.chartData = ChartQ.data
         ELSE IF Len(ChartQ.req.got) < 2
           THEN /\ InFlight(chartQ', ChartKey(filters))
                /\ chartProps'.chartData = ChartQ.data
           ELSE /\ ~chartQ'[ChartKey(filters)].error
                /\ ~InFlight(chartQ', ChartKey(filters))
                /\ chartProps'.chartData =
                     {[daily |-> OrEmpty(ChartQ.req.got[1].data),
                       outcomes |-> OrEmpty(ChartQ.req.got[2].data),
                       hourly |-> OrEmpty(RpcResp.data)]}]_vars

\* a fetch failed after an earlier one had delivered an empty daily
\* collection together with rows of the other two: the charts keep them
C12_Witness ==
  /\ ChartQ.error /\ ~ChartQ.fetching
  /\ chartProps.chartData # {}
  /\ TheOne(chartProps.chartData).daily = <<>>
  /\ TheOne(chartProps.chartData).outcomes # <<>>
  /\ TheOne(chartProps.chartData).hourly # <<>>

\* C13: for every outcome entry, the label displayed for the category is the
\* name unchanged when the name has at most 12 characters, and the first 12
\* characters of the name followed by an ellipsis when it has more (a name
\* of 15 characters is displayed truncated, one of 10 unchanged)
C13_LabelTruncatedAt12 ==
  ~series.skeleton =>
    /\ Len(series.legend) = Len(series.pieData)
    /\ \A i \in 1..Len(series.legend) :
         LET name == series.pieData[i].name IN
         series.legend[i] =
           IF Len(name) <= 12 THEN name ELSE SubSeq(name, 1, 12) \o Dots

HourlyIn == IF chartProps.chartData = {} THEN <<>> ELSE TheOne(chartProps.chartData).hourly
DailyIn == IF chartProps.chartData = {} THEN <<>> ELSE TheOne(chartProps.chartData).daily

\* C14: for every hourly input (empty, sparse, missing, or holding several
\* rows for the same hour), the hourly series has exactly 24 entries, one
\* per hour 0..23 in ascending order; the entry for hour h carries the count
\* of a matching input row when one exists and 0 otherwise
C14_HourlyDensified ==
  ~series.skeleton =>
    /\ Len(series.hourlyData) = 24
    /\ \A i \in 1..24 :
         LET matching == {j \in 1..Len(HourlyIn) : HourlyIn[j].call_hour = i - 1} IN
         /\ series.hourlyData[i].hour = i - 1
         /\ matching = {} => series.hourlyData[i].calls = 0
         /\ matching # {} =>
              \E j \in matching : series.hourlyData[i].calls = HourlyIn[j].call_count

\* two rows for hour 3 came in, with counts 5 and 2, and none for hour 0:
\* the entry of hour 3 carries 5 and the entry of hour 0 carries 0
C14_Witness ==
  /\ ~series.skeleton
  /\ HourlyIn = <<[call_hour |-> 3, call_count |-> 5], [call_hour |-> 3, call_count |-> 2]>>
  /\ series.hourlyData[4].calls = 5
  /\ series.hourlyData[1].calls = 0

\* C18: the daily series handed to the charts is the fetched daily
\* collection in exactly reversed order with the same length, so a
\* collection received newest-first is charted in ascending date order, and
\* reversing the series again gives back the fetched order
C18_DailyReversed ==
  ~series.skeleton =>
    LET n == Len(DailyIn) IN
    /\ Len(series.dailyStats) = n
    /\ \A i \in 1..n : series.dailyStats[i] = DailyPoint(DailyIn[n - i + 1])
    /\ (\A i \in 1..n : \A j \in 1..n :
          i < j => DateOrd(DailyIn[i].call_date) > DateOrd(DailyIn[j].call_date))
         => \A i \in 1..n : \A j \in 1..n :
              i < j => DateOrd(DailyIn[n - i + 1].call_date) < DateOrd(DailyIn[n - j + 1].call_date)
    /\ Reverse(series.dailyStats) = [i \in 1..n |-> DailyPoint(DailyIn[i])]

\* three days came in newest-first across the turn of the year, and the
\* series starts with the oldest of them
C18_Witness ==
  /\ ~series.skeleton
  /\ DailyIn = NewestFirst(3)
  /\ series.dailyStats[1] = DailyPoint(DailyRow(1))
  /\ series.dailyStats[3] = DailyPoint(DailyRow(3))

(* --------------------- properties of the filter form ------------------- *)
\* C16, first part: an edit of a field gives a filter value in which the
\* other three fields are as before, and the edited field is absent when the
\* input is empty (or the "all" choice of the outcome) and the input
\* otherwise
EditKeepsOthers(key, input) ==
  FormEdit(key, input) =>
    /\ \A k \in FilterKeys \ {key} : filters'[k] = filters[k]
    /\ filters'[key] =
         IF input = "" \/ (key = "outcome" /\ input = "all") THEN Undefined ELSE input

\* C16: every user edit replaces the filter value by one that differs from
\* the old one in at most the edited field: the other three fields are
\* unchanged, and an empty input (or the "all" outcome choice) makes the
\* edited field absent; an explicit clear makes all four fields absent
C16_EditTouchesOneField ==
  [][/\ \A key \in FilterKeys : \A input \in FormValues(key) : EditKeepsOthers(key, input)
     /\ FormClear => \A k \in FilterKeys : filters'[k] = Undefined]_vars

\* three fields hold a value and the customer number has been emptied
C16_Witness ==
  /\ filters.outcome = "Busy"
  /\ filters.dateFrom = "2024-06-01"
  /\ filters.dateTo = "2024-12-31"
  /\ filters.customerNumber = Undefined

(* -------------------- properties of the records fetch ------------------ *)
\* C15: a records fetch for page p under filters f asks for the rows at
\* offsets (p-1)*10 .. p*10-1 of the matches ordered by call_date
\* descending, so it returns at most 10 rows; the count query carries
\* exactly the predicates of the data query, one for each active field
\* (outcome equality, dateFrom lower bound, dateTo upper bound, customer
\* number pattern %x%); and totalPages = ceil(totalCount / 10), which is 0
\* when the count is 0 or absent
C15_RequestState ==
  \A k \in DOMAIN callsQ :
    LET req == callsQ[k].req
        cq == countQuery(req.f)
        dq == dataQuery(req.f, req.p)
    IN /\ dq.range = <<(req.p - 1) * 10, req.p * 10 - 1>>
       /\ dq.order = [column |-> "call_date", ascending |-> FALSE]
       /\ cq.predicates = dq.predicates
       /\ Cardinality(dq.predicates) = Cardinality(ActiveFields(req.f))
       /\ Truthy(req.f.outcome) => Pred("eq", "outcome", "", req.f.outcome, "") \in dq.predicates
       /\ Truthy(req.f.dateFrom) => Pred("gte", "call_date", "", req.f.dateFrom, "") \in dq.predicates
       /\ Truthy(req.f.dateTo) => Pred("lte", "call_date", "", req.f.dateTo, "") \in dq.predicates
       /\ Truthy(req.f.customerNumber) =>
            Pred("ilike", "customer_number", "%", req.f.customerNumber, "%") \in dq.predicates
       /\ callsQ[k].data # {} =>
            LET d == TheOne(callsQ[k].data) IN
            /\ d.calls <= 10
            /\ d.totalPages * 10 >= d.totalCount
            /\ d.totalPages > 0 => (d.totalPages - 1) * 10 < d.totalCount

C15_ReturnStep(countResp, matches) ==
  RecordsReturn(countResp, matches) =>
    LET d == TheOne(callsQ'[CurKey].data)
        dq == dataQuery(filters, currentPage)
    IN /\ d.calls = Cardinality({o \in dq.range[1]..dq.range[2] : o < matches})
       /\ countResp = {} => d.totalCount = 0 /\ d.totalPages = 0
       /\ countResp # {} => d.totalCount = TheOne(countResp)
       /\ tableProps'.totalPages = d.totalPages

C15_RecordsFetch ==
  /\ []C15_RequestState
  /\ [][\A matches \in MatchCounts : \A countResp \in {{}} \cup {{c} : c \in MatchCounts} :
          C15_ReturnStep(countResp, matches)]_vars

\* page 3 under an outcome and a customer-number filter with MaxMatches
\* matching rows: the rows from offset 20 on, and 3 pages
C15_Witness ==
  /\ currentPage = 3
  /\ Truthy(filters.outcome) /\ Truthy(filters.customerNumber)
  /\ callsQ[CurKey].data # {}
  /\ TheOne(callsQ[CurKey].data).calls = MaxMatches - 20
  /\ TheOne(callsQ[CurKey].data).totalCount = MaxMatches
  /\ tableProps.totalPages = 3

(* ------------------ properties of the page controls -------------------- *)
\* a step in which the table is rendered with a page one of its controls
\* asked for: the steps of PreviousPressed, NextPressed and LinkPressed
ControlPressed ==
  /\ tableProps'.currentPage \in PageTargets(tableProps, pages)
  /\ UNCHANGED dashVars

\* C17: when totalPages = 0 the page window is empty and no pagination
\* controls are rendered; the controls (Previous, page links, Next) are
\* rendered, and so can ask for a page, only when totalPages > 1 and the
\* table is not loading
C17_ControlsNeedPages ==
  /\ [](/\ tableProps.totalPages = 0 =>
             /\ pages = <<>>
             /\ ~controlsRendered(tableProps)
             /\ PageTargets(tableProps, pages) = {}
        /\ controlsRendered(tableProps) =>
             tableProps.totalPages > 1 /\ ~tableProps.isLoading
        /\ PageTargets(tableProps, pages) # {} =>
             tableProps.totalPages > 1 /\ ~tableProps.isLoading)
  /\ [][ControlPressed => tableProps.totalPages > 1 /\ ~tableProps.isLoading]_vars

\* the table stands on page 2 and is handed totalPages = 0: the window is
\* empty and nothing can be pressed
C17_Witness ==
  /\ tableProps.totalPages = 0
  /\ tableProps.currentPage = 2
  /\ pages = <<>>
  /\ ~tableProps.isLoading
  /\ PageTargets(tableProps, pages) = {}

\* C19: every page the controls of the table ask for lies in 1..totalPages.
\* Previous does nothing when currentPage <= 1 and otherwise asks for
\* currentPage - 1, Next does nothing when currentPage >= totalPages and
\* otherwise asks for currentPage + 1, a page link asks only for a page
\* number of the window; a page change leaves the filter value unchanged
C19_TargetsWithinPages ==
  /\ [](LET cur == tableProps.currentPage
            total == tableProps.totalPages
        IN /\ cur <= 1 => PreviousTarget(tableProps) = {}
           /\ PreviousTarget(tableProps) \subseteq {cur - 1}
           /\ cur >= total => NextTarget(tableProps) = {}
           /\ NextTarget(tableProps) \subseteq {cur + 1}
           /\ \A i \in DOMAIN pages :
                LinkTarget(tableProps, pages, i) \subseteq {pages[j].n : j \in PageNumbers})
  /\ [][ControlPressed =>
          /\ tableProps'.currentPage \in 1..tableProps.totalPages
          /\ filters' = filters]_vars

\* C20: for every currentPage >= 1 and totalPages >= 0 the page numbers of
\* the window are strictly increasing from left to right; an ellipsis marker
\* is never first, last or next to another one, and it stands between two
\* page numbers that differ by at least 2
C20_WindowWellFormed ==
  /\ \A i \in PageNumbers : \A j \in PageNumbers : i < j => pages[i].n < pages[j].n
  /\ \A i \in EllipsisMarks :
       /\ i > 1 /\ i < Len(pages)
       /\ pages[i - 1].kind = "page" /\ pages[i + 1].kind = "page"
       /\ pages[i + 1].n - pages[i - 1].n >= 2

\* 9 pages and page 5 current: both ellipsis markers are in the window
C20_Witness ==
  /\ tableProps.totalPages = 9
  /\ tableProps.currentPage = 5
  /\ Cardinality(EllipsisMarks) = 2

====
